---- MODULE Spec2Model ----
(***************************************************************************)
(* The training loop (Agent.fit) and the evaluation loop (Agent.test) of   *)
(* rl/core.py as a state machine.  The environment (Env.reset, Env.step,   *)
(* action_space.sample) and the concrete agent (forward, backward) are     *)
(* abstract in the source: their results are inputs drawn from small sets. *)
(* The record h holds what an observer of the run sees: which callbacks    *)
(* were notified with which arguments, which Env and Agent methods were    *)
(* invoked, and what the environment returned.                             *)
(***************************************************************************)
EXTENDS Integers, Sequences, FiniteSets, TLC

\* ------------------------------------------------------------------ bounds
MaxEpisodes == 2       \* nb_episodes is None or in 0..MaxEpisodes
MaxNbSteps == 2        \* nb_steps is None or in 0..MaxNbSteps
MaxRep == 2            \* action_repetition is in 0..MaxRep
MaxRandom == 2         \* nb_max_random_start_steps is in 0..MaxRandom
MaxEpisodeLen == 2     \* recorded steps explored per episode when no step budget bounds the run
MaxWarmup == 3         \* nb_max_random_start_steps is in 0..MaxWarmup where the warm-up is studied
MaxCalls == 2          \* successive calls of fit and test where lists are shared between calls

\* ------------------------------------------------------- optional values
\* Python's None and a present value v.
None == <<>>
Some(v) == <<v>>
Val(x) == x[1]
IsNone(x) == x = None

Rewards == {0, 1}                 \* r returned by env.step
Actions == {0, 1}                 \* what forward / action_space.sample return
\* What env.reset / env.step return as observation: an observation, or, from an
\* environment that breaks the Env contract, None.
Observations(nullable) == IF nullable THEN {None, Some(1)} ELSE {Some(1)}

OptEpisodes == {None} \cup {Some(n) : n \in 0..MaxEpisodes}
OptSteps == {None} \cup {Some(n) : n \in 0..MaxNbSteps}

\* The list objects a call can receive as callbacks: the default of fit (the one
\* list built when fit is defined), the default of test, and a list of the caller.
ListObjects == {"fit", "test", "caller"}
Verbosities == {0, 1}             \* verbose

\* CallbackList(callbacks): the wrapper holding the callbacks of the list, in order.
CallbackList(l) == [callbacks |-> l]
\* The callbacks a notification made through the wrapper reaches: each, in order.
Notified(cl) == cl.callbacks

VARIABLES
    compiled, training,                       \* Agent fields
    envNullable,                              \* the environment may return None as observation
    lists,                                    \* the content of each list object
    loggingCalls,                             \* per list object: the calls made with it that
                                              \*   passed the checks and asked for a logger
    nCalls,                                   \* calls made so far
    pc, method,                               \* position in the running call
    nb_episodes, nb_steps, action_repetition, nb_max_random_start_steps,  \* arguments
    given,                                    \* the list object passed as callbacks
    verbose, visualize,
    callbacks,                                \* callbacks once rebound to the CallbackList
    episode, step, observation, episode_reward, episode_step,             \* locals
    nb_random_start_steps, warm_i, action, reward, done, rep,
    h                                         \* what the run did, as seen from outside

agentVars == <<compiled, training>>
argVars == <<nb_episodes, nb_steps, action_repetition, nb_max_random_start_steps,
             given, verbose, visualize, callbacks>>
heapVars == <<lists, loggingCalls, nCalls>>
localVars == <<episode, step, observation, episode_reward, episode_step,
               nb_random_start_steps, warm_i, action, reward, done, rep>>
vars == <<agentVars, envNullable, heapVars, pc, method, argVars, localVars, h>>

\* A notification or call as the observer records it: its kind, its integer
\* argument (an index, an action, a reward), its flag and its logs.
Event(kind, arg, flag, logs) == [kind |-> kind, arg |-> arg, flag |-> flag, logs |-> logs]
NoLogs == [none |-> 0]

\* The observer's record at the entry of a call.
NewHistory(t) ==
    [ err |-> "none",            \* the error the call raised
      trainingAtCall |-> t,      \* self.training when the call was made
      envTouched |-> FALSE,      \* an Env method (reset, step, action_space.sample) was invoked
      event |-> Event("none", 0, FALSE, NoLogs),   \* the last notification or call
      nTrainBegin |-> 0, nTrainEnd |-> 0,      \* on_train_begin / on_train_end: counts
      nEpisodeBegin |-> 0, nEpisodeEnd |-> 0,  \* on_episode_begin / on_episode_end: counts
      nStepBegin |-> 0, nStepEnd |-> 0,        \* on_step_begin / on_step_end: counts
      nForward |-> 0, nBackward |-> 0,         \* forward / backward: counts
      nResetStates |-> 0,        \* reset_states: count
      envOpen |-> FALSE,         \* the environment was reset and has not reported done since
      envT |-> 0,                \* env.step calls since the last env.reset
      stepOnClosed |-> FALSE,    \* an env.step call was made while envOpen was false
      envConforms |-> TRUE,      \* reset and step have returned non-null observations only
      envDoneFirst |-> TRUE,     \* every first step after a reset has reported done
      envTwoStep |-> TRUE,       \* every step had reward 1 and done exactly on the 2nd step
      epStepBegins |-> 0,        \* on_step_begin notifications since on_episode_begin
      preSteps |-> 0,            \* env.step calls since on_episode_begin made before the
                                 \*   episode's first on_step_begin
      epResets |-> 0,            \* env.reset calls since on_episode_begin
      epWarns |-> 0,             \* warnings emitted since on_episode_begin
      preDone |-> FALSE,         \* one of the preSteps calls reported done
      epStartStep |-> 0,         \* step when on_episode_begin was notified
      epStepSum |-> 0,           \* sum of r over the recorded env.step calls of the episode
      epBackSum |-> 0,           \* sum of the rewards passed to backward in the episode
      epDecisions |-> 0,         \* forward calls since the last env.reset
      repCalls |-> 0,            \* env.step calls since the last forward
      repSum |-> 0,              \* sum of their rewards
      repSame |-> TRUE,          \* each of them received the action forward returned
      repAfterDone |-> FALSE,    \* one of them was made after another had reported done
      repDone |-> FALSE,         \* done flag of the last of them
      fwdAction |-> 0,           \* the action the last forward returned
      sumEpisodeSteps |-> 0,     \* sum of nb_episode_steps over the on_episode_end logs of fit
      lastLogSteps |-> 0,        \* nb_steps of the last on_episode_end log of fit
      logStepsIncreasing |-> TRUE ]  \* each such nb_steps was greater than the one before

\* The state before the call, whatever the environment.
InitAnyEnv ==
    /\ compiled \in BOOLEAN
    /\ envNullable \in BOOLEAN
    /\ training = None                     \* no constructor sets it
    /\ pc = "idle" /\ method = "none"
    /\ nb_episodes = None /\ nb_steps = None
    /\ action_repetition = 1 /\ nb_max_random_start_steps = 0
    /\ given = "fit" /\ verbose = 1 /\ visualize = FALSE
    /\ callbacks = CallbackList(<<>>)
    /\ lists = [fit |-> <<>>, test |-> <<>>, caller |-> <<"Callback">>]
    /\ loggingCalls = [l \in ListObjects |-> 0]
    /\ nCalls = 0
    /\ episode = 0 /\ step = 0 /\ observation = None
    /\ episode_reward = None /\ episode_step = None
    /\ nb_random_start_steps = 0 /\ warm_i = 0
    /\ action = 0 /\ reward = 0 /\ done = FALSE /\ rep = 0
    /\ h = NewHistory(None)

\* The state before the call, with an environment that honours the Env contract.
Init == InitAnyEnv /\ ~envNullable

\* A call can be made when no call is running.
CanCall == pc = "idle"

\* What env.reset() does to the observer's record.
EnvReset(g, obs) ==
    [g EXCEPT !.event = Event("env.reset", 0, FALSE, NoLogs),
              !.envTouched = TRUE, !.envOpen = TRUE, !.envT = 0,
              !.envConforms = @ /\ ~IsNone(obs),
              !.epResets = @ + 1, !.epDecisions = 0]

\* What env.step(a) returning (obs, r, d) does to the observer's record.
EnvStep(g, a, obs, r, d) ==
    [g EXCEPT !.event = Event("env.step", a, d, NoLogs),
              !.envTouched = TRUE, !.envOpen = ~d, !.envT = @ + 1,
              !.stepOnClosed = @ \/ ~g.envOpen,
              !.preSteps = IF g.epStepBegins = 0 THEN @ + 1 ELSE @,
              !.preDone = @ \/ (g.epStepBegins = 0 /\ d),
              !.envConforms = @ /\ ~IsNone(obs),
              !.envDoneFirst = @ /\ (g.envT = 0 => d),
              !.envTwoStep = @ /\ r = 1 /\ (d <=> g.envT = 1) /\ ~IsNone(obs)]

\* A local that is unset at the entry of a call keeps a fixed placeholder.
ClearLocals ==
    /\ episode' = 0 /\ step' = 0 /\ observation' = None
    /\ episode_reward' = None /\ episode_step' = None
    /\ nb_random_start_steps' = 0 /\ warm_i' = 0
    /\ action' = 0 /\ reward' = 0 /\ done' = FALSE /\ rep' = 0

Raise(g, e) == [g EXCEPT !.err = e]

\* What each callback notification does to the observer's record.
OnTrainBegin(g) ==
    [g EXCEPT !.event = Event("on_train_begin", 0, FALSE, NoLogs), !.nTrainBegin = @ + 1]
OnTrainEnd(g) ==
    [g EXCEPT !.event = Event("on_train_end", 0, FALSE, NoLogs), !.nTrainEnd = @ + 1]
OnEpisodeBegin(g, e, st) ==
    [g EXCEPT !.event = Event("on_episode_begin", e, FALSE, NoLogs),
              !.nEpisodeBegin = @ + 1,
              !.epStepBegins = 0, !.preSteps = 0, !.epResets = 0, !.epStartStep = st,
              !.epWarns = 0, !.preDone = FALSE,
              !.epStepSum = 0, !.epBackSum = 0, !.epDecisions = 0]
OnEpisodeEnd(g, e, logs) ==
    [g EXCEPT !.event = Event("on_episode_end", e, FALSE, logs), !.nEpisodeEnd = @ + 1]
\* An on_episode_end of fit: the observer adds up the nb_episode_steps of the
\* logs (where the key is there) and keeps the last nb_steps.
OnFitEpisodeEnd(g, e, logs) ==
    [OnEpisodeEnd(g, e, logs) EXCEPT
        !.sumEpisodeSteps =
            @ + (IF "nb_episode_steps" \in DOMAIN logs THEN logs.nb_episode_steps ELSE 0),
        !.lastLogSteps = logs.nb_steps,
        !.logStepsIncreasing = @ /\ (g.nEpisodeEnd > 0 => logs.nb_steps > g.lastLogSteps)]
OnStepBegin(g, i) ==
    [g EXCEPT !.event = Event("on_step_begin", i, FALSE, NoLogs),
              !.nStepBegin = @ + 1, !.epStepBegins = @ + 1]
\* OnStepEnd notified after the increment of episode_step instead of before it.
OnStepEndIncremented(g, i) ==
    [g EXCEPT !.event = Event("on_step_end", i + 1, FALSE, NoLogs), !.nStepEnd = @ + 1]

OnStepEnd(g, i) ==
    [g EXCEPT !.event = Event("on_step_end", i, FALSE, NoLogs), !.nStepEnd = @ + 1]

\* What self.reset_states() does to the observer's record.
ResetStates(g) ==
    [g EXCEPT !.event = Event("reset_states", 0, FALSE, NoLogs), !.nResetStates = @ + 1]

\* What forward returning a does to the observer's record.
Forward(g, a) ==
    [g EXCEPT !.event = Event("forward", a, FALSE, NoLogs),
              !.nForward = @ + 1, !.epDecisions = @ + 1, !.fwdAction = a,
              !.repCalls = 0, !.repSum = 0, !.repSame = TRUE,
              !.repAfterDone = FALSE, !.repDone = FALSE]

\* What env.step(a), as one of the repetitions of a recorded step, does to it.
RecordedStep(g, a, obs, r, d) ==
    [EnvStep(g, a, obs, r, d) EXCEPT !.repCalls = @ + 1, !.repSum = @ + r,
                                     !.repSame = @ /\ a = g.fwdAction,
                                     !.repAfterDone = @ \/ g.repDone,
                                     !.repDone = d,
                                     !.epStepSum = @ + r]

\* What backward(r, terminal=t) does to the observer's record.
Backward(g, r, t) ==
    [g EXCEPT !.event = Event("backward", r, t, NoLogs),
              !.nBackward = @ + 1, !.epBackSum = @ + r]

\* ------------------------------------------------------------ Agent.fit
\* FitContinue with the step test off by one.
FitContinueStepInclusive ==
    /\ (IF IsNone(nb_episodes) THEN TRUE ELSE episode < Val(nb_episodes))
    /\ (IF IsNone(nb_steps) THEN TRUE ELSE step <= Val(nb_steps))

\* FitContinue with the episode test off by one.
FitContinueInclusive ==
    /\ (IF IsNone(nb_episodes) THEN TRUE ELSE episode <= Val(nb_episodes))
    /\ (IF IsNone(nb_steps) THEN TRUE ELSE step < Val(nb_steps))

\* FitContinue comparing with an absent budget as Python 2 orders None (below
\* every number), the `is None` tests left out.
FitContinueAbsentCompared ==
    /\ (IF IsNone(nb_episodes) THEN FALSE ELSE episode < Val(nb_episodes))
    /\ (IF IsNone(nb_steps) THEN FALSE ELSE step < Val(nb_steps))

\* The while condition of the training loop.
FitContinue ==
    /\ (IF IsNone(nb_episodes) THEN TRUE ELSE episode < Val(nb_episodes))
    /\ (IF IsNone(nb_steps) THEN TRUE ELSE step < Val(nb_steps))

\* The runs explored: without a step budget, episodes of at most MaxEpisodeLen
\* recorded steps, and no more recorded steps than one episode more than the
\* episode budget (MaxEpisodes episodes where there is none) can hold.
EpisodesExplored == IF IsNone(nb_episodes) THEN MaxEpisodes ELSE Val(nb_episodes) + 1
FitExplored ==
    IsNone(nb_steps) =>
        /\ (IF IsNone(episode_step) THEN TRUE ELSE Val(episode_step) < MaxEpisodeLen)
        /\ episode < EpisodesExplored
        /\ step < MaxEpisodeLen * EpisodesExplored

\* FitCheck with the two checks in the other order.
FitCheckArgumentFirst(ar) ==
    IF ar < 1 THEN "ValueError"
    ELSE IF ~compiled THEN "RuntimeError"
    ELSE "none"

\* The error fit raises on entry, "none" when it raises none.
FitCheck(ar) ==
    IF ~compiled THEN "RuntimeError"
    ELSE IF ar < 1 THEN "ValueError"
    ELSE "none"

\* Extend building a new list and leaving the list object as it was
\* (callbacks = callbacks + [...]).
ExtendCopy(ls, cb, items) == ls

\* callbacks += items: the list object cb is extended in place.
Extend(ls, cb, items) == [ls EXCEPT ![cb] = @ \o items]

\* What fit appends: a logger chosen by nb_episodes if verbose > 0, a
\* visualizer if visualize.
FitAppended(ne, vb, vz) ==
    (IF vb > 0
     THEN (IF ~IsNone(ne) THEN <<"TrainEpisodeLogger">> ELSE <<"TrainIntervalLogger">>)
     ELSE <<>>)
    \o (IF vz THEN <<"Visualizer">> ELSE <<>>)

\* fit(env, nb_episodes, nb_steps, action_repetition, callbacks, verbose, visualize,
\* ..., nb_max_random_start_steps): the checks, the training flag, the callbacks
\* appended and wrapped, and on_train_begin.
FitCallWith(ne, ns, ar, rs, cb, vb, vz) ==
    /\ CanCall
    /\ method' = "fit"
    /\ nb_episodes' = ne /\ nb_steps' = ns
    /\ action_repetition' = ar /\ nb_max_random_start_steps' = rs
    /\ given' = cb /\ verbose' = vb /\ visualize' = vz
    /\ nCalls' = nCalls + 1
    /\ ClearLocals
    /\ UNCHANGED <<compiled, envNullable>>
    /\ IF FitCheck(ar) # "none"
       THEN /\ pc' = "raised"
            /\ h' = Raise(NewHistory(training), FitCheck(ar))
            /\ callbacks' = CallbackList(<<>>)
            /\ UNCHANGED <<training, lists, loggingCalls>>
       ELSE /\ pc' = "fit_while"
            /\ training' = Some(TRUE)
            /\ lists' = Extend(lists, cb, FitAppended(ne, vb, vz))
            /\ callbacks' = CallbackList(lists'[cb])
            /\ loggingCalls' = IF vb > 0 THEN [loggingCalls EXCEPT ![cb] = @ + 1]
                                ELSE loggingCalls
            /\ h' = OnTrainBegin(NewHistory(training))

\* fit called with its defaults for callbacks, verbose and visualize.
FitCall(ne, ns, ar, rs) == FitCallWith(ne, ns, ar, rs, "fit", 1, FALSE)

\* while (...) and (...): on exit, on_train_end; otherwise the start of an iteration.
FitWhile ==
    /\ pc = "fit_while"
    /\ IF FitContinue
       THEN /\ FitExplored
            /\ pc' = IF IsNone(observation) THEN "fit_episode_begin" ELSE "fit_asserts"
            /\ UNCHANGED h
       ELSE /\ pc' = "returned"
            /\ h' = OnTrainEnd(h)
    /\ UNCHANGED <<agentVars, envNullable, heapVars, method, argVars, localVars>>

\* if observation is None: on_episode_begin(episode), the counters zeroed.
FitEpisodeBegin ==
    /\ pc = "fit_episode_begin"
    /\ episode_step' = Some(0)
    /\ episode_reward' = Some(0)
    /\ h' = OnEpisodeBegin(h, episode, step)
    /\ pc' = "fit_reset_states"
    /\ UNCHANGED <<agentVars, envNullable, heapVars, method, argVars, episode, step, observation,
                   nb_random_start_steps, warm_i, action, reward, done, rep>>

\* self.reset_states()
FitResetStates ==
    /\ pc = "fit_reset_states"
    /\ h' = ResetStates(h)
    /\ pc' = "fit_env_reset"
    /\ UNCHANGED <<agentVars, envNullable, heapVars, method, argVars, localVars>>

\* observation = env.reset(); assert observation is not None
FitEnvReset ==
    /\ pc = "fit_env_reset"
    /\ \E obs \in Observations(envNullable) :
        /\ observation' = obs
        /\ IF IsNone(obs)
           THEN /\ pc' = "raised"
                /\ h' = Raise(EnvReset(h, obs), "AssertionError")
           ELSE /\ pc' = "fit_random_start"
                /\ h' = EnvReset(h, obs)
    /\ UNCHANGED <<agentVars, envNullable, heapVars, method, argVars, episode, step, episode_reward, episode_step,
                   nb_random_start_steps, warm_i, action, reward, done, rep>>

\* RandomStartChoices with the upper end included.
RandomStartChoicesInclusive(n) == 0..n

\* The values of: 0 if n == 0 else np.random.randint(n)
RandomStartChoices(n) == IF n = 0 THEN {0} ELSE 0..(n - 1)

\* nb_random_start_steps = 0 if ... else np.random.randint(nb_max_random_start_steps)
FitRandomStart ==
    /\ pc = "fit_random_start"
    /\ nb_random_start_steps' \in RandomStartChoices(nb_max_random_start_steps)
    /\ warm_i' = 0
    /\ pc' = "fit_warmup"
    /\ UNCHANGED <<agentVars, envNullable, heapVars, method, argVars, episode, step, observation, episode_reward,
                   episode_step, action, reward, done, rep, h>>

\* AfterWarmupStep with the test of done left out.
AfterWarmupStepIgnoreDone(d) == "fit_warmup"

\* Where the warm-up loop goes after an env.step that returned d: to the warning
\* and the second reset if done, to its next round otherwise.
AfterWarmupStep(d) == IF d THEN "fit_warmup_reset" ELSE "fit_warmup"

\* for _ in xrange(nb_random_start_steps): one env.step on a sampled action.
FitWarmup ==
    /\ pc = "fit_warmup"
    /\ IF warm_i < nb_random_start_steps
       THEN \E a \in Actions, obs \in Observations(envNullable), r \in Rewards, d \in BOOLEAN :
               /\ observation' = obs
               /\ done' = d
               /\ warm_i' = warm_i + 1
               /\ h' = EnvStep(h, a, obs, r, d)
               /\ pc' = AfterWarmupStep(d)
       ELSE /\ pc' = "fit_asserts"
            /\ UNCHANGED <<observation, done, warm_i, h>>
    /\ UNCHANGED <<agentVars, envNullable, heapVars, method, argVars, episode, step, episode_reward, episode_step,
                   nb_random_start_steps, action, reward, rep>>

\* What warnings.warn(...) does to the observer's record.
Warn(g) == [g EXCEPT !.epWarns = @ + 1]

\* WarmupRestart calling reset_states before its env.reset, as the start of an
\* episode does.
WarmupRestartResetStates(g, obs) == EnvReset(ResetStates(Warn(g)), obs)

\* What the restart of an episode whose warm-up reported done does to the
\* observer's record: the warning, then env.reset() alone.
WarmupRestart(g, obs) == EnvReset(Warn(g), obs)

\* AfterWarmupRestart without the break.
AfterWarmupRestartNoBreak == "fit_warmup"

\* Where fit goes after the restart: break, out of the warm-up loop.
AfterWarmupRestart == "fit_asserts"

\* if done: warnings.warn(...); observation = env.reset(); break
FitWarmupReset ==
    /\ pc = "fit_warmup_reset"
    /\ \E obs \in Observations(envNullable) :
        /\ observation' = obs
        /\ h' = WarmupRestart(h, obs)
    /\ pc' = AfterWarmupRestart
    /\ UNCHANGED <<agentVars, envNullable, heapVars, method, argVars, episode, step, episode_reward, episode_step,
                   nb_random_start_steps, warm_i, action, reward, done, rep>>

\* assert episode_reward is not None; assert episode_step is not None;
\* assert observation is not None
FitAsserts ==
    /\ pc = "fit_asserts"
    /\ IF IsNone(episode_reward) \/ IsNone(episode_step) \/ IsNone(observation)
       THEN /\ pc' = "raised"
            /\ h' = Raise(h, "AssertionError")
       ELSE /\ pc' = "fit_step_begin"
            /\ UNCHANGED h
    /\ UNCHANGED <<agentVars, envNullable, heapVars, method, argVars, localVars>>

\* callbacks.on_step_begin(episode_step)
FitStepBegin ==
    /\ pc = "fit_step_begin"
    /\ h' = OnStepBegin(h, Val(episode_step))
    /\ pc' = "fit_forward"
    /\ UNCHANGED <<agentVars, envNullable, heapVars, method, argVars, localVars>>

\* action = self.forward(observation); reward = 0.; done = False
FitForward ==
    /\ pc = "fit_forward"
    /\ \E a \in Actions :
        /\ action' = a
        /\ h' = Forward(h, a)
    /\ reward' = 0
    /\ done' = FALSE
    /\ rep' = 0
    /\ pc' = "fit_env_step"
    /\ UNCHANGED <<agentVars, envNullable, heapVars, method, argVars, episode, step, observation, episode_reward,
                   episode_step, nb_random_start_steps, warm_i>>

\* RepeatAgain without the break on done.
RepeatAgainNoBreak(n, d) == n < action_repetition

\* The repetition loop goes on after n env.step calls the last of which returned d.
RepeatAgain(n, d) == ~d /\ n < action_repetition

\* for _ in xrange(action_repetition): observation, r, done, _ = env.step(action);
\* reward += r; if done: break
FitEnvStep ==
    /\ pc = "fit_env_step"
    /\ \E obs \in Observations(envNullable), r \in Rewards, d \in BOOLEAN :
        /\ observation' = obs
        /\ reward' = reward + r
        /\ done' = d
        /\ rep' = rep + 1
        /\ h' = RecordedStep(h, action, obs, r, d)
        /\ pc' = IF RepeatAgain(rep + 1, d) THEN "fit_env_step" ELSE "fit_backward"
    /\ UNCHANGED <<agentVars, envNullable, heapVars, method, argVars, episode, step, episode_reward, episode_step,
                   nb_random_start_steps, warm_i, action>>

\* metrics = self.backward(reward, terminal=done); episode_reward += reward
FitBackward ==
    /\ pc = "fit_backward"
    /\ h' = Backward(h, reward, done)
    /\ episode_reward' = Some(Val(episode_reward) + reward)
    /\ pc' = "fit_step_end"
    /\ UNCHANGED <<agentVars, envNullable, heapVars, method, argVars, episode, step, observation, episode_step,
                   nb_random_start_steps, warm_i, action, reward, done, rep>>

\* callbacks.on_step_end(episode_step, step_logs); episode_step += 1; step += 1
FitStepEnd ==
    /\ pc = "fit_step_end"
    /\ h' = OnStepEnd(h, Val(episode_step))
    /\ episode_step' = Some(Val(episode_step) + 1)
    /\ step' = step + 1
    /\ pc' = "fit_episode_end"
    /\ UNCHANGED <<agentVars, envNullable, heapVars, method, argVars, episode, observation, episode_reward,
                   nb_random_start_steps, warm_i, action, reward, done, rep>>

\* FitEpisodeLogs reporting the steps of the episode as the steps of the run.
FitEpisodeLogsEpisodeSteps ==
    [episode_reward |-> Val(episode_reward),
     nb_episode_steps |-> Val(episode_step),
     nb_steps |-> Val(episode_step)]

\* FitEpisodeLogs with nb_episode_steps under the key test uses.
FitEpisodeLogsTestKeys ==
    [episode_reward |-> Val(episode_reward),
     nb_steps |-> Val(episode_step)]

\* FitEpisodeLogs reporting the reward of the last step as the episode's.
FitEpisodeLogsLastReward ==
    [episode_reward |-> reward,
     nb_episode_steps |-> Val(episode_step),
     nb_steps |-> step]

\* FitEpisodeLogs with the index of the episode's last step as nb_episode_steps.
FitEpisodeLogsStepIndex ==
    [episode_reward |-> Val(episode_reward),
     nb_episode_steps |-> Val(episode_step) - 1,
     nb_steps |-> step]

\* The episode_logs of fit.
FitEpisodeLogs ==
    [episode_reward |-> Val(episode_reward),
     nb_episode_steps |-> Val(episode_step),
     nb_steps |-> step]

\* EpisodeFinished closing the running episode also when the step budget is
\* used up.
EpisodeFinishedOrBudget ==
    IF done THEN TRUE
    ELSE IF IsNone(nb_steps) THEN FALSE
    ELSE step >= Val(nb_steps)

\* The test that ends an episode of fit: if done.
EpisodeFinished == done

\* if done: on_episode_end(episode, episode_logs); episode += 1; the episode cleared.
FitEpisodeEnd ==
    /\ pc = "fit_episode_end"
    /\ IF EpisodeFinished
       THEN /\ h' = OnFitEpisodeEnd(h, episode, FitEpisodeLogs)
            /\ episode' = episode + 1
            /\ observation' = None
            /\ episode_step' = None
            /\ episode_reward' = None
       ELSE UNCHANGED <<h, episode, observation, episode_step, episode_reward>>
    /\ pc' = "fit_while"
    /\ UNCHANGED <<agentVars, envNullable, heapVars, method, argVars, step, nb_random_start_steps, warm_i,
                   action, reward, done, rep>>

\* ----------------------------------------------------------- Agent.test
\* TestCheck refusing negative repetitions only.
TestCheckNegative(ar) ==
    IF ~compiled THEN "RuntimeError"
    ELSE IF ar < 0 THEN "ValueError"
    ELSE "none"

\* The error test raises on entry, "none" when it raises none.
TestCheck(ar) ==
    IF ~compiled THEN "RuntimeError"
    ELSE IF ar < 1 THEN "ValueError"
    ELSE "none"

\* What test appends: a test logger, and a visualizer if visualize.
TestAppended(vz) == <<"TestLogger">> \o (IF vz THEN <<"Visualizer">> ELSE <<>>)

\* test(env, nb_episodes, action_repetition, callbacks, visualize): the checks, the
\* training flag, the callbacks appended and wrapped.  episode is the index the
\* for loop is at.
TestCallWith(ne, ar, cb, vz) ==
    /\ CanCall
    /\ method' = "test"
    /\ nb_episodes' = Some(ne) /\ nb_steps' = None
    /\ action_repetition' = ar /\ nb_max_random_start_steps' = 0
    /\ given' = cb /\ verbose' = 1 /\ visualize' = vz
    /\ nCalls' = nCalls + 1
    /\ ClearLocals
    /\ UNCHANGED <<compiled, envNullable>>
    /\ IF TestCheck(ar) # "none"
       THEN /\ pc' = "raised"
            /\ h' = Raise(NewHistory(training), TestCheck(ar))
            /\ callbacks' = CallbackList(<<>>)
            /\ UNCHANGED <<training, lists, loggingCalls>>
       ELSE /\ pc' = "test_for"
            /\ training' = Some(FALSE)
            /\ lists' = Extend(lists, cb, TestAppended(vz))
            /\ callbacks' = CallbackList(lists'[cb])
            /\ loggingCalls' = [loggingCalls EXCEPT ![cb] = @ + 1]
            /\ h' = NewHistory(training)

\* test called with its defaults for callbacks and visualize.
TestCall(ne, ar) == TestCallWith(ne, ar, "test", TRUE)

\* for episode in xrange(nb_episodes)
TestFor ==
    /\ pc = "test_for"
    /\ pc' = IF episode < Val(nb_episodes) THEN "test_episode_begin" ELSE "returned"
    /\ UNCHANGED <<agentVars, envNullable, heapVars, method, argVars, localVars, h>>

\* callbacks.on_episode_begin(episode); episode_reward = 0.; episode_step = 0
TestEpisodeBegin ==
    /\ pc = "test_episode_begin"
    /\ episode_reward' = Some(0)
    /\ episode_step' = Some(0)
    /\ h' = OnEpisodeBegin(h, episode, 0)
    /\ pc' = "test_reset_states"
    /\ UNCHANGED <<agentVars, envNullable, heapVars, method, argVars, episode, step, observation,
                   nb_random_start_steps, warm_i, action, reward, done, rep>>

\* self.reset_states()
TestResetStates ==
    /\ pc = "test_reset_states"
    /\ h' = ResetStates(h)
    /\ pc' = "test_env_reset"
    /\ UNCHANGED <<agentVars, envNullable, heapVars, method, argVars, localVars>>

\* observation = env.reset(); assert observation is not None; done = False
TestEnvReset ==
    /\ pc = "test_env_reset"
    /\ \E obs \in Observations(envNullable) :
        /\ observation' = obs
        /\ IF IsNone(obs)
           THEN /\ pc' = "raised"
                /\ h' = Raise(EnvReset(h, obs), "AssertionError")
                /\ UNCHANGED done
           ELSE /\ pc' = "test_while"
                /\ h' = EnvReset(h, obs)
                /\ done' = FALSE
    /\ UNCHANGED <<agentVars, envNullable, heapVars, method, argVars, episode, step, episode_reward,
                   episode_step, nb_random_start_steps, warm_i, action, reward, rep>>

\* The episodes explored: at most MaxEpisodeLen recorded steps long.
TestExplored == Val(episode_step) < MaxEpisodeLen

\* while not done
TestWhile ==
    /\ pc = "test_while"
    /\ IF ~done
       THEN /\ TestExplored
            /\ pc' = "test_step_begin"
       ELSE pc' = "test_episode_end"
    /\ UNCHANGED <<agentVars, envNullable, heapVars, method, argVars, localVars, h>>

\* callbacks.on_step_begin(episode_step)
TestStepBegin ==
    /\ pc = "test_step_begin"
    /\ h' = OnStepBegin(h, Val(episode_step))
    /\ pc' = "test_forward"
    /\ UNCHANGED <<agentVars, envNullable, heapVars, method, argVars, localVars>>

\* action = self.forward(observation); reward = 0.
TestForward ==
    /\ pc = "test_forward"
    /\ \E a \in Actions :
        /\ action' = a
        /\ h' = Forward(h, a)
    /\ reward' = 0
    /\ rep' = 0
    /\ pc' = "test_env_step"
    /\ UNCHANGED <<agentVars, envNullable, heapVars, method, argVars, episode, step, observation,
                   episode_reward, episode_step, nb_random_start_steps, warm_i, done>>

\* for _ in xrange(action_repetition): observation, r, d, _ = env.step(action);
\* reward += r; if d: done = True; break
TestEnvStep ==
    /\ pc = "test_env_step"
    /\ \E obs \in Observations(envNullable), r \in Rewards, d \in BOOLEAN :
        /\ observation' = obs
        /\ reward' = reward + r
        /\ done' = IF d THEN TRUE ELSE done
        /\ rep' = rep + 1
        /\ h' = RecordedStep(h, action, obs, r, d)
        /\ pc' = IF RepeatAgain(rep + 1, d) THEN "test_env_step" ELSE "test_backward"
    /\ UNCHANGED <<agentVars, envNullable, heapVars, method, argVars, episode, step, episode_reward,
                   episode_step, nb_random_start_steps, warm_i, action>>

\* self.backward(reward, terminal=done); episode_reward += reward
TestBackward ==
    /\ pc = "test_backward"
    /\ h' = Backward(h, reward, done)
    /\ episode_reward' = Some(Val(episode_reward) + reward)
    /\ pc' = "test_step_end"
    /\ UNCHANGED <<agentVars, envNullable, heapVars, method, argVars, episode, step, observation,
                   episode_step, nb_random_start_steps, warm_i, action, reward, done, rep>>

\* callbacks.on_step_end(episode_step); episode_step += 1
TestStepEnd ==
    /\ pc = "test_step_end"
    /\ h' = OnStepEnd(h, Val(episode_step))
    /\ episode_step' = Some(Val(episode_step) + 1)
    /\ pc' = "test_while"
    /\ UNCHANGED <<agentVars, envNullable, heapVars, method, argVars, episode, step, observation,
                   episode_reward, nb_random_start_steps, warm_i, action, reward, done, rep>>

\* TestEpisodeLogs reporting the index of the last step as the number of steps.
TestEpisodeLogsLastIndex ==
    [episode_reward |-> Val(episode_reward),
     nb_steps |-> Val(episode_step) - 1]

\* The episode_logs of test.
TestEpisodeLogs ==
    [episode_reward |-> Val(episode_reward),
     nb_steps |-> Val(episode_step)]

\* callbacks.on_episode_end(episode, episode_logs), and the for loop's next index.
TestEpisodeEnd ==
    /\ pc = "test_episode_end"
    /\ h' = OnEpisodeEnd(h, episode, TestEpisodeLogs)
    /\ episode' = episode + 1
    /\ pc' = "test_for"
    /\ UNCHANGED <<agentVars, envNullable, heapVars, method, argVars, step, observation, episode_reward,
                   episode_step, nb_random_start_steps, warm_i, action, reward, done, rep>>

\* ----------------------------------------------------------- the system
\* A step of the running fit after the first on_episode_begin of an iteration.
FitIteration ==
    \/ FitResetStates
    \/ FitEnvReset
    \/ FitRandomStart
    \/ FitWarmup
    \/ FitAsserts
    \/ FitStepBegin
    \/ FitForward
    \/ FitEnvStep
    \/ FitBackward
    \/ FitStepEnd
    \/ FitEpisodeEnd

\* A step of the running fit.
FitRun == FitWhile \/ FitEpisodeBegin \/ FitWarmupReset \/ FitIteration

Next ==
    \/ \E ne \in OptEpisodes, ns \in OptSteps, ar \in 0..MaxRep, rs \in 0..MaxRandom :
          FitCall(ne, ns, ar, rs)
    \/ FitWhile
    \/ FitEpisodeBegin
    \/ FitWarmupReset
    \/ FitIteration
    \/ \E ne \in 0..MaxEpisodes, ar \in 0..MaxRep : TestCall(ne, ar)
    \/ TestFor
    \/ TestEpisodeBegin
    \/ TestResetStates
    \/ TestEnvReset
    \/ TestWhile
    \/ TestStepBegin
    \/ TestForward
    \/ TestEnvStep
    \/ TestBackward
    \/ TestStepEnd
    \/ TestEpisodeEnd

Spec == Init /\ [][Next]_vars
SpecAnyEnv == InitAnyEnv /\ [][Next]_vars

\* fit with a step budget.  fit is sequential and every call it makes returns
\* (forward, backward, the callbacks, and env.reset and env.step by the
\* hypothesis on the environment): the running call always takes its next step.
NextBudget ==
    \/ \E ne \in OptEpisodes, n \in 0..MaxNbSteps, ar \in 0..MaxRep, rs \in 0..MaxRandom :
          FitCall(ne, Some(n), ar, rs)
    \/ FitWhile
    \/ FitEpisodeBegin
    \/ FitWarmupReset
    \/ FitIteration
SpecBudget == Init /\ [][NextBudget]_vars /\ WF_vars(FitRun)

\* fit on a compiled agent with nb_episodes = 3, no step budget,
\* action_repetition = 1 and nb_max_random_start_steps = 0.
NextScenario ==
    \/ FitCall(Some(3), None, 1, 0)
    \/ FitWhile
    \/ FitEpisodeBegin
    \/ FitIteration
InitScenario == Init /\ compiled
SpecScenario == InitScenario /\ [][NextScenario]_vars

\* fit on an agent with a step budget, no episode budget and
\* action_repetition = 1, with longer warm-ups.
NextWarmup ==
    \/ \E n \in 0..MaxNbSteps, rs \in 0..MaxWarmup : FitCall(None, Some(n), 1, rs)
    \/ FitWhile
    \/ FitEpisodeBegin
    \/ FitWarmupReset
    \/ FitIteration
SpecWarmup == Init /\ [][NextWarmup]_vars

\* The call has returned or raised: its caller goes on, and can call again.
CallerResumes ==
    /\ pc \in {"returned", "raised"}
    /\ nCalls < MaxCalls
    /\ pc' = "idle"
    /\ UNCHANGED <<agentVars, envNullable, heapVars, method, argVars, localVars, h>>

\* Successive calls of fit and test on one agent, with the default list or the
\* caller's list as callbacks, every choice of verbose and visualize, and
\* budgets of one episode or one step.
NextCallbacks ==
    \/ \E ne \in {None, Some(1)}, cb \in {"fit", "caller"}, vb \in Verbosities, vz \in BOOLEAN :
          FitCallWith(ne, Some(1), 1, 0, cb, vb, vz)
    \/ FitWhile
    \/ FitEpisodeBegin
    \/ FitIteration
    \/ \E cb \in {"test", "caller"}, vz \in BOOLEAN : TestCallWith(1, 1, cb, vz)
    \/ TestFor
    \/ TestEpisodeBegin
    \/ TestResetStates
    \/ TestEnvReset
    \/ TestWhile
    \/ TestStepBegin
    \/ TestForward
    \/ TestEnvStep
    \/ TestBackward
    \/ TestStepEnd
    \/ TestEpisodeEnd
    \/ CallerResumes
SpecCallbacks == Init /\ [][NextCallbacks]_vars

\* ------------------------------------------------------------ properties
\* The running or finished call is a fit / a test that passed its two checks.
FitRuns == method = "fit" /\ compiled /\ action_repetition >= 1
TestRuns == method = "test" /\ compiled /\ action_repetition >= 1
Kind == h.event.kind

\* C1: fit with nb_episodes = N >= 1 and no step budget notifies on_train_begin
\* once, before any on_episode_begin; on_episode_begin and on_episode_end carry
\* the indices 0, 1, 2, ... in this order, each at most N times; on_train_end is
\* notified once, when fit returns, and by then both were notified N times.
C1_EpisodeNotifications ==
    (FitRuns /\ IsNone(nb_steps) /\ ~IsNone(nb_episodes) /\ nb_episodes # Some(0)) =>
        /\ h.nTrainBegin = 1
        /\ h.nTrainEnd = (IF pc = "returned" THEN 1 ELSE 0)
        /\ h.nEpisodeBegin <= Val(nb_episodes)
        /\ h.nEpisodeEnd <= h.nEpisodeBegin
        /\ Kind = "on_episode_begin" => h.event.arg = h.nEpisodeBegin - 1
        /\ Kind = "on_episode_end" => h.event.arg = h.nEpisodeEnd - 1
        /\ pc = "returned" =>
              /\ h.nEpisodeBegin = Val(nb_episodes)
              /\ h.nEpisodeEnd = Val(nb_episodes)
              /\ Kind = "on_train_end"

\* fit with nb_episodes = 2 and no step budget has returned.
C1_Witness ==
    /\ FitRuns /\ IsNone(nb_steps) /\ nb_episodes = Some(2)
    /\ pc = "returned" /\ h.nEpisodeEnd = 2

\* C2: in fit and in test, the episode_reward of every on_episode_end log is the
\* sum of the rewards of the env.step calls of the episode's recorded steps (all
\* repetitions, no warm-up step), and the sum of the rewards passed to backward.
C2_EpisodeRewardIsSum ==
    Kind = "on_episode_end" =>
        /\ h.event.logs.episode_reward = h.epStepSum
        /\ h.event.logs.episode_reward = h.epBackSum

\* An episode of two recorded steps, with repeated actions and a warm-up step,
\* ends with reward 3.
C2_Witness ==
    /\ Kind = "on_episode_end" /\ method = "fit"
    /\ action_repetition = 2 /\ h.preSteps = 1
    /\ h.nForward = 2 /\ h.epStepSum = 3

\* C3: with action_repetition = k >= 1, in fit and in test, the env.step calls
\* that follow a forward are at most k, all receive the action forward
\* returned, and none is made after one of them reported done; backward is
\* called after at least one of them, with the sum of their rewards as reward
\* and the done flag of the last one as terminal.
C3_ActionRepetition ==
    (FitRuns \/ TestRuns) =>
        /\ h.repCalls <= action_repetition
        /\ h.repSame
        /\ ~h.repAfterDone
        /\ Kind = "backward" =>
              /\ h.repCalls >= 1
              /\ h.event.arg = h.repSum
              /\ h.event.flag = h.repDone

\* backward after a repetition cut short by done, and after a full one.
C3_Witness ==
    /\ Kind = "backward" /\ action_repetition = 2
    /\ h.repCalls = 1 /\ h.repDone /\ h.nBackward = 2 /\ h.epBackSum = 3

\* No callback was notified and no Env method invoked.
NothingDone ==
    /\ ~h.envTouched
    /\ Kind = "none"
    /\ h.nTrainBegin = 0 /\ h.nTrainEnd = 0
    /\ h.nEpisodeBegin = 0 /\ h.nEpisodeEnd = 0
    /\ h.nStepBegin = 0 /\ h.nStepEnd = 0

\* C4: fit or test on an agent that is not compiled raises the not-compiled
\* error (RuntimeError) with no Env method invoked and no callback notified.
C4_NotCompiled ==
    (method # "none" /\ ~compiled) =>
        /\ pc = "raised"
        /\ h.err = "RuntimeError"
        /\ NothingDone

\* fit was called on an agent that is not compiled, with a bad repetition too.
C4_Witness ==
    method = "fit" /\ ~compiled /\ action_repetition = 0 /\ pc = "raised"

\* C5: fit or test on a compiled agent with action_repetition < 1 raises the
\* invalid-argument error (ValueError) with no Env method invoked, no callback
\* notified and the training flag as it was.
C5_BadRepetition ==
    (method # "none" /\ compiled /\ action_repetition < 1) =>
        /\ pc = "raised"
        /\ h.err = "ValueError"
        /\ NothingDone
        /\ training = h.trainingAtCall

\* test was called on a compiled agent with action_repetition = 0.
C5_Witness ==
    method = "test" /\ compiled /\ action_repetition = 0 /\ pc = "raised"

\* A warm-up step: an env.step made after on_episode_begin and before the
\* episode's first on_step_begin.
WarmupStep == h'.preSteps = h.preSteps + 1

\* C6: in fit, the env.step calls made between on_episode_begin and the first
\* on_step_begin of the episode are none when nb_max_random_start_steps = 0 and
\* fewer than nb_max_random_start_steps otherwise; they notify no on_step_begin
\* or on_step_end, call no forward or backward, and leave episode_reward,
\* episode_step and step as they were, so that the first recorded step starts
\* from zero counters.
C6_Warmup ==
    /\ [](FitRuns =>
            /\ (nb_max_random_start_steps = 0 => h.preSteps = 0)
            /\ (nb_max_random_start_steps > 0 => h.preSteps < nb_max_random_start_steps)
            /\ (Kind = "on_step_begin" /\ h.event.arg = 0) =>
                  /\ episode_reward = Some(0) /\ episode_step = Some(0)
                  /\ step = h.epStartStep
                  /\ h.epDecisions = 0 /\ h.epBackSum = 0 /\ h.epStepSum = 0)
    /\ [][(FitRuns /\ WarmupStep) =>
            /\ UNCHANGED <<episode_reward, episode_step, step>>
            /\ h'.nStepBegin = h.nStepBegin /\ h'.nStepEnd = h.nStepEnd
            /\ h'.nForward = h.nForward /\ h'.nBackward = h.nBackward]_vars

\* The first recorded step of an episode begins after one warm-up step.
C6_Witness ==
    /\ FitRuns /\ Kind = "on_step_begin" /\ h.event.arg = 0
    /\ nb_max_random_start_steps = 2 /\ h.preSteps = 1

\* C7: test with nb_episodes = M notifies on_episode_begin and on_episode_end
\* with the indices 0, 1, ..., each begin after the end of the episode before
\* and each end after its begin; an on_episode_end is notified only once the
\* environment has reported done, and its log's nb_steps is the number of
\* forward calls since the episode's env.reset; when test returns both were
\* notified M times.
C7_TestEpisodes ==
    TestRuns =>
        /\ h.nEpisodeBegin <= Val(nb_episodes)
        /\ h.nEpisodeEnd <= h.nEpisodeBegin
        /\ h.nEpisodeBegin <= h.nEpisodeEnd + 1
        /\ Kind = "on_episode_begin" =>
              /\ h.event.arg = h.nEpisodeBegin - 1
              /\ h.nEpisodeEnd = h.event.arg
        /\ Kind = "on_episode_end" =>
              /\ h.event.arg = h.nEpisodeEnd - 1
              /\ h.nEpisodeBegin = h.nEpisodeEnd
              /\ ~h.envOpen
              /\ h.event.logs.nb_steps = h.epDecisions
        /\ pc = "returned" =>
              /\ h.nEpisodeBegin = Val(nb_episodes)
              /\ h.nEpisodeEnd = Val(nb_episodes)

\* test with nb_episodes = 2 has returned after a last episode of two steps.
C7_Witness ==
    /\ TestRuns /\ pc = "returned" /\ nb_episodes = Some(2)
    /\ h.event.logs.nb_steps = 2

\* C8, as claimed: with an environment that reports done on the first step after
\* every reset, every on_episode_end log, of test as of fit, holds
\* nb_episode_steps = 1, and in fit nb_steps is one more than at the episode's
\* start.
C8_AsClaimed ==
    (Kind = "on_episode_end" /\ h.envDoneFirst) =>
        /\ "nb_episode_steps" \in DOMAIN h.event.logs
        /\ h.event.logs.nb_episode_steps = 1
        /\ method = "fit" => h.event.logs.nb_steps = h.epStartStep + 1

\* C8, amended: with such an environment, the on_episode_end log of test holds
\* the episode's step count 1 under the key nb_steps and has no key
\* nb_episode_steps; the log of fit holds nb_episode_steps = 1 and an nb_steps one
\* more than at the episode's start.
C8_DoneOnFirstStep ==
    (Kind = "on_episode_end" /\ h.envDoneFirst) =>
        IF method = "test"
        THEN /\ DOMAIN h.event.logs = {"episode_reward", "nb_steps"}
             /\ h.event.logs.nb_steps = 1
        ELSE /\ DOMAIN h.event.logs = {"episode_reward", "nb_episode_steps", "nb_steps"}
             /\ h.event.logs.nb_episode_steps = 1
             /\ h.event.logs.nb_steps = h.epStartStep + 1

\* The second episode of a fit run ends on such an environment, after a warm-up
\* step that reported done too.
C8_Witness ==
    /\ Kind = "on_episode_end" /\ h.envDoneFirst /\ method = "fit"
    /\ h.event.arg = 1 /\ h.preSteps = 1 /\ action_repetition = 2

\* C9: in fit with nb_episodes = 3, action_repetition = 1 and no warm-up, on an
\* environment whose every step has reward 1 and whose every second step
\* reports done, the k-th on_episode_end log has episode_reward 2,
\* nb_episode_steps 2 and nb_steps 2k, and fit returns after the third.
C9_Scenario ==
    (FitRuns /\ nb_episodes = Some(3) /\ IsNone(nb_steps) /\ action_repetition = 1
       /\ nb_max_random_start_steps = 0 /\ h.envTwoStep) =>
        /\ h.nEpisodeEnd <= 3
        /\ Kind = "on_episode_end" =>
              /\ h.event.logs.episode_reward = 2
              /\ h.event.logs.nb_episode_steps = 2
              /\ h.event.logs.nb_steps = 2 * h.nEpisodeEnd
        /\ pc = "returned" => h.nEpisodeEnd = 3

\* The third episode has ended on such an environment, at 6 steps.
C9_Witness ==
    /\ FitRuns /\ nb_episodes = Some(3) /\ h.envTwoStep
    /\ Kind = "on_episode_end" /\ h.nEpisodeEnd = 3 /\ h.event.logs.nb_steps = 6

\* A budget of fit is used up: the episode index has reached nb_episodes or the
\* step count nb_steps.
BudgetReached ==
    \/ (~IsNone(nb_episodes) /\ episode >= Val(nb_episodes))
    \/ (~IsNone(nb_steps) /\ step >= Val(nb_steps))

\* fit is inside an iteration of its loop, before the step counters are incremented.
InIteration ==
    pc \in {"fit_episode_begin", "fit_reset_states", "fit_env_reset", "fit_random_start", "fit_warmup",
            "fit_warmup_reset", "fit_asserts", "fit_step_begin", "fit_forward",
            "fit_env_step", "fit_backward", "fit_step_end"}

\* C10: fit begins an iteration only while neither budget is used up, and at
\* the loop boundary it returns, notifying on_train_end, exactly when one is; it
\* notifies at most nb_episodes on_episode_begin and makes at most nb_steps
\* forward and backward calls; and with a step budget it reaches on_train_end
\* whatever the environment returns and whether or not it ever reports done.
C10_Budgets ==
    /\ [](FitRuns =>
            /\ InIteration => ~BudgetReached
            /\ ~IsNone(nb_episodes) => h.nEpisodeBegin <= Val(nb_episodes)
            /\ ~IsNone(nb_steps) =>
                  /\ h.nForward <= Val(nb_steps)
                  /\ h.nBackward <= Val(nb_steps))
    /\ [][(FitRuns /\ pc = "fit_while") =>
            IF BudgetReached
            THEN pc' = "returned" /\ h'.nTrainEnd = 1
            ELSE pc' # "returned" /\ h'.nTrainEnd = 0]_vars
    /\ (FitRuns /\ ~IsNone(nb_steps)) ~> (pc = "returned" /\ h.nTrainEnd = 1)

\* fit has returned on its step budget without the environment ever reporting done.
C10_Witness ==
    /\ FitRuns /\ nb_steps = Some(2) /\ IsNone(nb_episodes)
    /\ pc = "returned" /\ h.nTrainEnd = 1 /\ h.nEpisodeEnd = 0 /\ h.nBackward = 2

\* C11: fit called with neither nb_episodes nor nb_steps never leaves its loop:
\* it does not return and on_train_end is not notified, whatever the
\* environment returns, also when every step reports done.
C11_Unbounded ==
    (FitRuns /\ IsNone(nb_episodes) /\ IsNone(nb_steps)) =>
        /\ pc # "returned"
        /\ h.nTrainEnd = 0
        /\ Kind # "on_train_end"

\* fit without budgets is back at its loop after two episodes that each ended
\* on their first step.
C11_Witness ==
    /\ FitRuns /\ IsNone(nb_episodes) /\ IsNone(nb_steps)
    /\ pc = "fit_while" /\ h.envDoneFirst /\ h.nEpisodeEnd = 2 /\ step = 2

\* C12: in fit (warm-up steps and recorded steps) and in test, every env.step
\* call is made on an environment that was reset and has not reported done
\* since: after a done, env.reset comes before the next env.step.
C12_NoStepAfterDone ==
    (FitRuns \/ TestRuns) =>
        ~h.stepOnClosed

\* The first env.step after the second env.reset of an episode whose warm-up
\* reported done.
C12_Witness ==
    /\ FitRuns /\ Kind = "env.step" /\ h.epResets = 2 /\ h.envT = 1 /\ h.preSteps = 1

\* C13: in fit and in test, reset_states is called once per on_episode_begin,
\* right after it and before the episode's first env.reset, and at no other
\* time: the second env.reset of an episode whose warm-up reported done comes
\* without it.
C13_ResetStates ==
    (FitRuns \/ TestRuns) =>
        /\ h.nResetStates = h.nEpisodeBegin - (IF Kind = "on_episode_begin" THEN 1 ELSE 0)
        /\ Kind = "reset_states" => h.epResets = 0
        /\ h.epResets >= 1 => h.nResetStates = h.nEpisodeBegin

\* The second episode of a fit run after its second env.reset, with two
\* reset_states calls made.
C13_Witness ==
    /\ FitRuns /\ Kind = "env.reset" /\ h.epResets = 2
    /\ h.nEpisodeBegin = 2 /\ h.nResetStates = 2

\* C14, as claimed: in fit and in test, on any environment, a null observation
\* returned while the episode has not reported done stops the loop with an
\* assertion failure: forward is never invoked with a null observation, and the
\* step in which env.step returned one without done is not carried on to
\* backward and on_step_end; after an env.reset that returned one the assertion
\* has failed or is the next statement.
C14_AsClaimed ==
    (FitRuns \/ TestRuns) =>
        /\ Kind = "forward" => ~IsNone(observation)
        /\ (Kind \in {"backward", "on_step_end"} /\ ~done) => ~IsNone(observation)
        /\ (Kind = "env.reset" /\ IsNone(observation)) => pc \in {"raised", "fit_asserts"}

\* C15, as claimed: in fit, on any environment, also one whose step returns a
\* null observation without done, every on_episode_begin but the first comes
\* after the on_episode_end of the episode before, the indices passed to
\* on_episode_begin are 0, 1, 2, ... without repetition, and an on_episode_end
\* is notified only when the last env.step returned done.
C15_AsClaimed ==
    FitRuns =>
        /\ h.nEpisodeBegin <= h.nEpisodeEnd + 1
        /\ Kind = "on_episode_begin" =>
              /\ h.event.arg = h.nEpisodeBegin - 1
              /\ h.nEpisodeEnd = h.nEpisodeBegin - 1
        /\ Kind = "on_episode_end" => h.repDone /\ h.event.arg = h.nEpisodeEnd - 1

\* C16: every recorded step of fit and of test is on_step_begin(i), forward, one
\* or more env.step, backward, on_step_end(i) in this order, i being the number
\* of steps the episode has completed (0, 1, 2, ...); a step begins only when
\* the step before has ended, backward is called once per forward, and
\* on_episode_end is notified only when the last step has ended and its last
\* env.step returned done.
C16_StepOrder ==
    (FitRuns \/ TestRuns) =>
        /\ h.nStepEnd <= h.nBackward /\ h.nBackward <= h.nForward
        /\ h.nForward <= h.nStepBegin /\ h.nStepBegin <= h.nStepEnd + 1
        /\ Kind = "on_step_begin" =>
              /\ h.event.arg = h.epStepBegins - 1
              /\ h.nForward = h.nStepEnd
        /\ Kind = "forward" => h.nForward = h.nStepBegin /\ h.nBackward = h.nForward - 1
        /\ (Kind = "env.step" /\ h.epStepBegins > 0) =>
              /\ h.nForward = h.nStepBegin /\ h.nBackward = h.nForward - 1
              /\ h.repCalls >= 1
        /\ Kind = "backward" =>
              /\ h.nBackward = h.nForward /\ h.nStepEnd = h.nBackward - 1
              /\ h.repCalls >= 1
        /\ Kind = "on_step_end" =>
              /\ h.nStepEnd = h.nStepBegin
              /\ h.event.arg = h.epStepBegins - 1
        /\ Kind = "on_episode_end" =>
              /\ h.nStepEnd = h.nStepBegin /\ h.epStepBegins >= 1
              /\ h.repDone

\* The second step of an episode of fit has ended after two env.step calls.
C16_Witness ==
    /\ FitRuns /\ Kind = "on_step_end" /\ h.event.arg = 1
    /\ h.repCalls = 2 /\ h.preSteps = 1

\* C17: in fit, a warm-up env.step that reports done is followed by one warning
\* and one more env.reset, by no further warm-up step in the episode, and by the
\* episode's first recorded step, the call raising nothing; an episode sees two
\* env.reset calls when a warm-up step reported done, one otherwise, and never
\* more.
C17_WarmupDone ==
    /\ [](FitRuns =>
            /\ pc # "raised"
            /\ h.epResets <= 2
            /\ h.epWarns = (IF h.epResets = 2 THEN 1 ELSE 0)
            /\ h.epResets = 2 => h.preDone
            /\ h.epStepBegins >= 1 => h.epResets = (IF h.preDone THEN 2 ELSE 1))
    /\ [][(FitRuns /\ WarmupStep) => ~h.preDone]_vars
    /\ [][(FitRuns /\ Kind = "env.reset" /\ h.epResets = 2 /\ h' # h) =>
            (h'.event.kind = "on_step_begin" /\ h'.event.arg = 0)]_vars

\* The first recorded step of an episode begins after a warm-up of two rounds
\* whose first env.step reported done.
C17_Witness ==
    /\ FitRuns /\ Kind = "on_step_begin" /\ nb_random_start_steps = 2
    /\ h.preSteps = 1 /\ h.preDone /\ h.epResets = 2 /\ h.epWarns = 1

\* The loggers among the callbacks l.
Loggers(l) ==
    Cardinality({i \in 1..Len(l) :
                    l[i] \in {"TrainEpisodeLogger", "TrainIntervalLogger", "TestLogger"}})

\* The notifications of the life cycle of a run.
Lifecycle ==
    {"on_train_begin", "on_train_end", "on_episode_begin", "on_episode_end",
     "on_step_begin", "on_step_end"}

\* A call is made and passes its checks / is made and raises.
CallPasses == nCalls' = nCalls + 1 /\ pc' # "raised"
CallRaises == nCalls' = nCalls + 1 /\ pc' = "raised"

\* How many callbacks the call being made is to append.
AppendedCount ==
    IF method' = "test" THEN 1 + (IF visualize' THEN 1 ELSE 0)
    ELSE (IF verbose' > 0 THEN 1 ELSE 0) + (IF visualize' THEN 1 ELSE 0)

\* C18: a call of fit or test that passes its checks appends its logger (fit:
\* when verbose > 0; test: always) and its visualizer (when visualize) to the
\* list object it was given, the caller's or the default one, keeping what the
\* list held and touching no other list; a call that raises and every later
\* step, the return included, leave the lists as they are; so the callbacks the
\* call notifies are the list's, and on the k-th logging call made with a list
\* every notification of the life cycle reaches k loggers.
C18_SharedCallbacks ==
    /\ []((method # "none" /\ pc \notin {"idle", "raised"}) =>
            /\ Notified(callbacks) = lists[given]
            /\ Kind \in Lifecycle =>
                  Loggers(Notified(callbacks)) = loggingCalls[given])
    /\ [](\A l \in ListObjects : Loggers(lists[l]) = loggingCalls[l])
    /\ [][CallPasses =>
            /\ Len(lists'[given']) = Len(lists[given']) + AppendedCount
            /\ SubSeq(lists'[given'], 1, Len(lists[given'])) = lists[given']
            /\ \A l \in ListObjects \ {given'} : lists'[l] = lists[l]]_vars
    /\ [][CallRaises => lists' = lists]_vars
    /\ [][nCalls' = nCalls => lists' = lists]_vars

\* test, called with the list the caller had passed to fit before, ends an
\* episode notifying the caller's callback, the logger and visualizer of fit
\* and its own logger.
C18_Witness ==
    /\ nCalls = 2 /\ method = "test" /\ given = "caller" /\ Kind = "on_episode_end"
    /\ Notified(callbacks) = <<"Callback", "TrainIntervalLogger", "Visualizer", "TestLogger">>
    /\ loggingCalls["caller"] = 2

\* C19: in fit, the on_episode_end notifications are never more than the
\* on_episode_begin notifications and at most one fewer; when fit returns after
\* a last step whose env.step did not report done, it returns on the step
\* budget, the last episode begun has had no on_episode_end, every
\* on_step_begin has had its on_step_end, and on_train_end was notified.
C19_UnfinishedEpisode ==
    FitRuns =>
        /\ h.nEpisodeEnd <= h.nEpisodeBegin
        /\ h.nEpisodeBegin <= h.nEpisodeEnd + 1
        /\ (pc = "returned" /\ h.nStepEnd >= 1 /\ ~h.repDone) =>
              /\ nb_steps = Some(step)
              /\ h.nEpisodeBegin = h.nEpisodeEnd + 1
              /\ h.nStepBegin = h.nStepEnd
              /\ h.nTrainEnd = 1 /\ Kind = "on_train_end"

\* fit has returned on a budget of two steps, the first of which ended an
\* episode and the second of which left the next one open.
C19_Witness ==
    /\ FitRuns /\ pc = "returned" /\ nb_steps = Some(2) /\ ~h.repDone
    /\ h.nEpisodeBegin = 2 /\ h.nEpisodeEnd = 1 /\ h.nStepEnd = 2

\* C20: in fit, at every loop boundary step is the sum of the nb_episode_steps
\* of the on_episode_end logs so far plus the running episode's episode_step (0
\* between episodes); step is the number of on_step_end notifications, whatever
\* action_repetition and the warm-up are; and the nb_steps of each
\* on_episode_end log is greater than that of the log before.
C20_StepCounter ==
    FitRuns =>
        /\ pc \in {"fit_while", "returned"} =>
              step = h.sumEpisodeSteps + (IF IsNone(episode_step) THEN 0 ELSE Val(episode_step))
        /\ step = h.nStepEnd
        /\ h.logStepsIncreasing
        /\ (Kind = "on_episode_end" /\ h.nEpisodeEnd > 1) =>
              h.event.logs.nb_steps > h.epStartStep

\* fit is at its loop boundary, one step into its second episode, after a first
\* episode of two steps, with repeated actions and a warm-up step.
C20_Witness ==
    /\ FitRuns /\ pc = "fit_while" /\ h.nEpisodeEnd = 1 /\ episode_step = Some(1)
    /\ step = 3 /\ action_repetition = 2 /\ h.preSteps = 1
====
